---- MODULE Spec2Model ----
(***************************************************************************)
(* Model of the FastAPI tracing/log-correlation demo:                      *)
(*   logging_config.py  configure_logger and the import-time call          *)
(*   item_service.py    ItemService.process_item_data                      *)
(*   main.py            the http middleware and the three routes           *)
(*                                                                         *)
(* Python values are modelled as follows.  A str is a sequence of tokens   *)
(* (a literal is one token, a formatted integer contributes its sign and   *)
(* digits); an opaque str (a header value, a path) is a TLA+ string.       *)
(* One request is in progress at a time: every local of a request lives    *)
(* in its own task and the only state requests share is the logging        *)
(* configuration.                                                          *)
(***************************************************************************)
EXTENDS Integers, Sequences, FiniteSets, TLC

VARIABLES
    env,          \* os.environ: LOG_LEVEL and DD_SERVICE
    handlers,     \* logging: the handler objects attached to every logger
    level,        \* logging: the level set on every logger (0 = NOTSET)
    nextHandler,  \* identity of the next StreamHandler object to be created
    configCalls,  \* number of times configure_logger has run in the process
    pc,           \* position of the request (or direct service call) in progress
    req,          \* the inbound request: route, item_id, X-Correlation-ID
    spanActive,   \* whether the tracer holds an active span for the request
    spanTags,     \* the tags set on that span: a function from tag keys
    log,          \* the log calls made since the request started, in order
    calls,        \* how many times the middleware has invoked call_next
    svc,          \* process_item_data: its arguments, the fault met, its outcome
    ds,           \* the outcome of call_next: a response or an exception
    outcome       \* the outcome of the middleware: a response or an exception

vars == <<env, handlers, level, nextHandler, configCalls, pc, req, spanActive,
          spanTags, log, calls, svc, ds, outcome>>

-----------------------------------------------------------------------------
(* Bounds *)

\* configure_logger runs at most this many times (the import-time call included)
MaxConfigCalls == 3
\* item ids range over -MaxItemId .. MaxItemId
MaxItemId == 1

-----------------------------------------------------------------------------
(* Python values *)

None == "<None>"
Unset == "<unset>"

Digit == <<"0", "1", "2", "3", "4", "5", "6", "7", "8", "9">>

RECURSIVE NatToStr(_)
NatToStr(n) ==
    IF n < 10 THEN <<Digit[n + 1]>>
    ELSE NatToStr(n \div 10) \o <<Digit[(n % 10) + 1]>>

\* str(n) of an int, as format() renders it inside an f-string
IntToStr(n) == IF n < 0 THEN <<"-">> \o NatToStr(-n) ELSE NatToStr(n)

\* bool(v) of a header value: None or a str
Truthy(v) == v # None /\ v # ""

EmptyDict == [k \in {} |-> <<>>]

\* Python objects whose type matters carry it: a dict with its items, None,
\* a tracer span, a bound method
PyDict(items) == [type |-> "dict", items |-> items]
PyNone == [type |-> "NoneType"]
PySpan == [type |-> "Span"]
PyMethod(name) == [type |-> "method", name |-> name]

\* bool(o) of an object: None is falsy, a span or a bound method is truthy
ObjTruthy(o) == o.type # "NoneType"

\* whether attribute lookup o.attr succeeds
HasAttr(o, attr) ==
    CASE o.type = "Span" -> attr \in {"set_tag"}
      [] o.type = "dict" -> attr \in {"get"}
      [] OTHER -> FALSE

\* dict.get(key, default)
DictGet(d, key, default) ==
    IF key \in DOMAIN d.items THEN d.items[key] ELSE default

\* os.getenv(key, default)
getenv(key, default) == IF env[key] = Unset THEN default ELSE env[key]

\* str.upper() on the level names the environment can hold
upper(s) ==
    CASE s = "debug" -> "DEBUG"
      [] s = "info" -> "INFO"
      [] s = "error" -> "ERROR"
      [] OTHER -> s

-----------------------------------------------------------------------------
(* The logging library as configure_logger and the log calls use it *)

LevelNo == [NOTSET |-> 0, DEBUG |-> 10, INFO |-> 20, WARNING |-> 30, ERROR |-> 40]

DefaultLoggerName == "my-fastapi-app"

LoggerNames == {"root", DefaultLoggerName, "orders-api", "ddtrace"}

\* every logger named here is a direct child of the root logger
Parent(name) == IF name = "root" THEN None ELSE "root"

RECURSIVE Chain(_)
\* the logger and its ancestors, as callHandlers walks them (propagate is True)
Chain(name) == IF name = None THEN <<>> ELSE <<name>> \o Chain(Parent(name))

\* LOGGER_NAME of configure_logger
LOGGER_NAME == getenv("DD_SERVICE", DefaultLoggerName)

\* LOG_LEVEL of configure_logger
LOG_LEVEL == upper(getenv("LOG_LEVEL", "INFO"))

\* Logger.addHandler: a handler already attached is not attached again
addHandler(h, name, hdlr) == [h EXCEPT ![name] = @ \cup {hdlr}]

\* the loop over root_logger.handlers[:] removing every handler
ClearRootHandlers(h) == [h EXCEPT !["root"] = {}]

\* configure_logger: the handlers of every logger after the call, hdlr being
\* the StreamHandler the call creates
configure_handlers(h, hdlr) ==
    addHandler(addHandler(ClearRootHandlers(h), LOGGER_NAME, hdlr),
               "ddtrace", hdlr)

\* configure_logger: the levels of every logger after the call
configure_levels(lv) ==
    [[[lv EXCEPT !["root"] = LevelNo["DEBUG"]]
          EXCEPT ![LOGGER_NAME] = LevelNo[LOG_LEVEL]]
          EXCEPT !["ddtrace"] = LevelNo[LOG_LEVEL]]

RECURSIVE EffectiveLevel(_, _)
\* Logger.getEffectiveLevel
EffectiveLevel(lv, name) ==
    IF name = None THEN LevelNo["NOTSET"]
    ELSE IF lv[name] # LevelNo["NOTSET"] THEN lv[name]
    ELSE EffectiveLevel(lv, Parent(name))

\* Logger.isEnabledFor
isEnabledFor(name, lvl) == LevelNo[lvl] >= EffectiveLevel(level, name)

RECURSIVE SumHandlers(_)
SumHandlers(chain) ==
    IF chain = <<>> THEN 0
    ELSE Cardinality(handlers[Head(chain)]) + SumHandlers(Tail(chain))

\* The number of lines one log call on the application logger writes to
\* standard output: one per handler met by callHandlers, none when the level
\* is not enabled.
Writes(lvl) ==
    IF isEnabledFor(LOGGER_NAME, lvl) THEN SumHandlers(Chain(LOGGER_NAME)) ELSE 0

\* one call of app_logger.<lvl>(msg, extra=extra) made by component src
LogCall(src, lvl, msg, extra) ==
    [src |-> src, level |-> lvl, msg |-> msg, extra |-> extra,
     writes |-> Writes(lvl)]

-----------------------------------------------------------------------------
(* Outcomes of a call: nothing yet, a returned value, a raised exception *)

NoOutcome == [kind |-> "none", status |-> 0, body |-> EmptyDict, exc |-> None]
Return(value) == [kind |-> "return", status |-> 0, body |-> value, exc |-> None]
Response(status, body) ==
    [kind |-> "return", status |-> status, body |-> body, exc |-> None]
Raise(e) == [kind |-> "raise", status |-> 0, body |-> EmptyDict, exc |-> e]

\* The exceptions the body of a try block can meet: data.get on an argument
\* that is no dict, and an allocation that fails
Faults == {"AttributeError", "MemoryError"}

\* str(e)
ExcStr(e) ==
    CASE e = "AttributeError" -> "'NoneType' object has no attribute 'get'"
      [] e = "MemoryError" -> ""
      [] OTHER -> e

-----------------------------------------------------------------------------
(* item_service.py: ItemService.process_item_data *)

ItemIds == (0 - MaxItemId) .. MaxItemId

\* the payloads of a direct call: dicts with and without a "name" entry, and
\* an argument that is no dict
Payloads ==
    {PyDict(EmptyDict),
     PyDict([name |-> <<"Widget">>]),
     PyDict([color |-> <<"red">>]),
     PyDict([name |-> <<"Widget">>, color |-> <<"red">>]),
     PyNone}

\* mutant of processed_data: the name is synthesized whatever the payload holds
processed_data_SynthesizedName(item_id, data) ==
    [id |-> item_id,
     name |-> <<"Item ">> \o IntToStr(item_id),
     status |-> "processed",
     original_data |-> data]

\* the dict literal built inside the try block
processed_data(item_id, data) ==
    [id |-> item_id,
     name |-> DictGet(data, "name", <<"Item ">> \o IntToStr(item_id)),
     status |-> "processed",
     original_data |-> data]

\* the try block: what it logs and how it ends, fault being the exception the
\* environment makes the block meet (None when it meets none)
process_item_data_try(item_id, data, fault) ==
    IF ~HasAttr(data, "get") THEN [logs |-> <<>>, out |-> Raise("AttributeError")]
    ELSE IF fault # None THEN [logs |-> <<>>, out |-> Raise(fault)]
    ELSE [logs |-> <<LogCall("service", "DEBUG", "Successfully processed data",
                             [processed_data |-> processed_data(item_id, data)])>>,
          out |-> Return(processed_data(item_id, data))]

\* mutant of process_item_data_except: the fault is logged and swallowed
process_item_data_except_Swallowed(item_id, e) ==
    [logs |-> <<LogCall("service", "ERROR", "Error processing item",
                        [item_id |-> item_id, exc_info |-> e])>>,
     out |-> Return(EmptyDict)]

\* the except block: log at error severity, then a bare raise
process_item_data_except(item_id, e) ==
    [logs |-> <<LogCall("service", "ERROR", "Error processing item",
                        [item_id |-> item_id, exc_info |-> e])>>,
     out |-> Raise(e)]

NoCall == [caller |-> None, item_id |-> 0, data |-> PyNone, exc |-> None,
           out |-> NoOutcome]

\* where process_item_data returns to
ReturnPc(caller) == IF caller = "route" THEN "read_item_ret" ELSE "done"

\* self.logger.info("ItemService: Starting to process item ID: ...")
SvcStart ==
    /\ pc = "svc_entry"
    /\ log' = Append(log, LogCall("service", "INFO", "Starting to process item",
                                  [item_id |-> svc.item_id]))
    /\ pc' = "svc_try"
    /\ UNCHANGED <<env, handlers, level, nextHandler, configCalls, req,
                   spanActive, spanTags, calls, svc, ds, outcome>>

\* the try block runs to its return or to the exception it meets
SvcTry ==
    /\ pc = "svc_try"
    /\ \E fault \in {None} \cup Faults :
         LET r == process_item_data_try(svc.item_id, svc.data, fault) IN
           /\ log' = log \o r.logs
           /\ IF r.out.kind = "raise"
              THEN /\ svc' = [svc EXCEPT !.exc = r.out.exc]
                   /\ pc' = "svc_except"
              ELSE /\ svc' = [svc EXCEPT !.out = r.out]
                   /\ pc' = ReturnPc(svc.caller)
    /\ UNCHANGED <<env, handlers, level, nextHandler, configCalls, req,
                   spanActive, spanTags, calls, ds, outcome>>

\* the except block
SvcExcept ==
    /\ pc = "svc_except"
    /\ LET r == process_item_data_except(svc.item_id, svc.exc) IN
         /\ log' = log \o r.logs
         /\ svc' = [svc EXCEPT !.out = r.out]
    /\ pc' = ReturnPc(svc.caller)
    /\ UNCHANGED <<env, handlers, level, nextHandler, configCalls, req,
                   spanActive, spanTags, calls, ds, outcome>>

-----------------------------------------------------------------------------
(* main.py: the routes *)

Routes == {"/", "/items", "/error"}

\* the path of the request: /items/{item_id} carries the id
Path(r) == IF r.route = "/items" THEN <<"/items/">> \o IntToStr(r.item_id)
           ELSE <<r.route>>

\* X-Correlation-ID: absent, present and empty, present and not empty
HeaderValues == {None, "", "abc123"}

NoRequest == [route |-> None, item_id |-> 0, cid |-> None]

\* what the framework makes of a raised HTTPException(status_code, detail)
http_exception_handler(status_code, detail) ==
    Response(status_code, [detail |-> detail])

\* read_root
read_root ==
    [logs |-> <<LogCall("route", "INFO", "Handling root endpoint request.",
                        EmptyDict)>>,
     out |-> Response(200, [message |-> "Hello from FastAPI, traced by Datadog!"])]

\* simulate_error
simulate_error ==
    [logs |-> <<LogCall("route", "ERROR",
                        "Simulating an intentional error in the /error endpoint.",
                        EmptyDict)>>,
     out |-> http_exception_handler(500, "An intentional server error occurred.")]

\* read_item: log_extra as built before the log call
log_extra(item_id, correlation_id) ==
    IF Truthy(correlation_id)
    THEN [item_id_param |-> item_id, request_correlation_id |-> correlation_id]
    ELSE [item_id_param |-> item_id]

\* read_item: item_data
item_data(item_id) == PyDict([name |-> <<"Product ">> \o IntToStr(item_id)])

\* read_item: the rest of the try block once process_item_data has returned
read_item_success(item_id, processed_result) ==
    [logs |-> <<LogCall("route", "INFO", "Successfully processed item",
                        [processed_result |-> processed_result])>>,
     out |-> Response(200, processed_result)]

\* mutant of read_item_except: the error is returned as an ordinary result
read_item_except_Returned(item_id, e) ==
    [logs |-> <<LogCall("route", "ERROR", "Failed to process item in API route",
                        [item_id_param |-> item_id, exc_info |-> e])>>,
     out |-> Response(200, [detail |-> ExcStr(e)])]

\* read_item: the except block
read_item_except(item_id, e) ==
    [logs |-> <<LogCall("route", "ERROR", "Failed to process item in API route",
                        [item_id_param |-> item_id, exc_info |-> e])>>,
     out |-> http_exception_handler(500, ExcStr(e))]

\* read_root and simulate_error run to their response
RouteNoItem ==
    /\ pc = "route"
    /\ req.route \in {"/", "/error"}
    /\ LET r == IF req.route = "/" THEN read_root ELSE simulate_error IN
         /\ log' = log \o r.logs
         /\ ds' = r.out
    /\ pc' = "mw_after"
    /\ UNCHANGED <<env, handlers, level, nextHandler, configCalls, req,
                   spanActive, spanTags, calls, svc, outcome>>

\* read_item up to its call of item_service.process_item_data
ReadItemCall ==
    /\ pc = "route"
    /\ req.route = "/items"
    /\ log' = Append(log, LogCall("route", "INFO", "Received request for item ID",
                                  log_extra(req.item_id, req.cid)))
    /\ svc' = [NoCall EXCEPT !.caller = "route", !.item_id = req.item_id,
                             !.data = item_data(req.item_id)]
    /\ pc' = "svc_entry"
    /\ UNCHANGED <<env, handlers, level, nextHandler, configCalls, req,
                   spanActive, spanTags, calls, ds, outcome>>

\* read_item from the return of process_item_data, or from what it raised
ReadItemReturn ==
    /\ pc = "read_item_ret"
    /\ LET r == IF svc.out.kind = "return"
                THEN read_item_success(req.item_id, svc.out.body)
                ELSE read_item_except(req.item_id, svc.out.exc) IN
         /\ log' = log \o r.logs
         /\ ds' = r.out
    /\ pc' = "mw_after"
    /\ UNCHANGED <<env, handlers, level, nextHandler, configCalls, req,
                   spanActive, spanTags, calls, svc, outcome>>

-----------------------------------------------------------------------------
(* main.py: the middleware process_request_and_log_context *)

\* current_span = tracer.current_span: the attribute is read and not called,
\* so the value is the tracer's bound method, whatever span is active
current_span == PyMethod("current_span")

\* tracer.get_log_correlation_context(): the ids of the active span, zeros
\* when there is none
log_correlation_context ==
    IF spanActive THEN [trace_id |-> "t1", span_id |-> "s1"]
    ELSE [trace_id |-> "0", span_id |-> "0"]

\* the block under "if correlation_id:": the tags of the span afterwards, the
\* log calls made, and the exception raised, if any
attach_correlation_id(correlation_id, span, tags) ==
    IF ~Truthy(correlation_id)
    THEN [tags |-> tags, logs |-> <<>>, out |-> NoOutcome]
    ELSE IF ObjTruthy(span)
    THEN IF HasAttr(span, "set_tag")
         THEN [tags |-> [k \in DOMAIN tags \cup {"correlation_id"} |->
                           IF k = "correlation_id" THEN correlation_id ELSE tags[k]],
               logs |-> <<LogCall("middleware", "DEBUG", "Attached X-Correlation-ID",
                                  [correlation_id |-> correlation_id])>>,
               out |-> NoOutcome]
         ELSE [tags |-> tags, logs |-> <<>>, out |-> Raise("AttributeError")]
    ELSE [tags |-> tags,
          logs |-> <<LogCall("middleware", "WARNING",
                             "Received X-Correlation-ID but no active span",
                             [correlation_id |-> correlation_id])>>,
          out |-> NoOutcome]

\* app_logger.info("Request started", extra=...)
request_started(r) ==
    LogCall("middleware", "INFO", "Request started",
            [path |-> Path(r), method |-> "GET", dd |-> log_correlation_context])

\* mutant of after_call_next: an exception of call_next is caught, logged as
\* a finished request and answered 500
after_call_next_Catching(r, down) ==
    [logs |-> <<LogCall("middleware", "INFO", "Request finished",
                        [path |-> Path(r), method |-> "GET",
                         status_code |-> IF down.kind = "raise" THEN 500
                                         ELSE down.status,
                         dd |-> log_correlation_context])>>,
     out |-> IF down.kind = "raise"
             THEN Response(500, [detail |-> "Internal Server Error"])
             ELSE down]

\* the statements after "response = await call_next(request)", reached only
\* when the await returned: the log call and the return
after_call_next(r, down) ==
    IF down.kind = "raise"
    THEN [logs |-> <<>>, out |-> down]
    ELSE [logs |-> <<LogCall("middleware", "INFO", "Request finished",
                             [path |-> Path(r), method |-> "GET",
                              status_code |-> down.status,
                              dd |-> log_correlation_context])>>,
          out |-> down]

\* a request arrives and the middleware is entered
NewRequest ==
    /\ pc \in {"idle", "done"}
    /\ \E route \in Routes, cid \in HeaderValues, active \in BOOLEAN :
         \E id \in (IF route = "/items" THEN ItemIds ELSE {0}) :
           /\ req' = [route |-> route, item_id |-> id, cid |-> cid]
           /\ spanActive' = active
    /\ spanTags' = EmptyDict
    /\ log' = <<>>
    /\ calls' = 0
    /\ svc' = NoCall
    /\ ds' = NoOutcome
    /\ outcome' = NoOutcome
    /\ pc' = "mw_entry"
    /\ UNCHANGED <<env, handlers, level, nextHandler, configCalls>>

\* from the header read to the end of the block under "if correlation_id:"
MwAttach ==
    /\ pc = "mw_entry"
    /\ LET r == attach_correlation_id(req.cid, current_span, spanTags) IN
         /\ spanTags' = r.tags
         /\ log' = log \o r.logs
         /\ IF r.out.kind = "raise"
            THEN outcome' = r.out /\ pc' = "done"
            ELSE outcome' = outcome /\ pc' = "mw_log_start"
    /\ UNCHANGED <<env, handlers, level, nextHandler, configCalls, req,
                   spanActive, calls, svc, ds>>

\* the "Request started" log call
MwLogStart ==
    /\ pc = "mw_log_start"
    /\ log' = Append(log, request_started(req))
    /\ pc' = "mw_call_next"
    /\ UNCHANGED <<env, handlers, level, nextHandler, configCalls, req,
                   spanActive, spanTags, calls, svc, ds, outcome>>

\* call_next(request) is invoked and the route of the request runs
MwCallNext ==
    /\ pc = "mw_call_next"
    /\ calls' = calls + 1
    /\ pc' = "route"
    /\ UNCHANGED <<env, handlers, level, nextHandler, configCalls, req,
                   spanActive, spanTags, log, svc, ds, outcome>>

\* call_next(request) is invoked and the await is cancelled before the route
\* has run: it raises instead of returning a response
MwCallNextCancelledBefore ==
    /\ pc = "mw_call_next"
    /\ calls' = calls + 1
    /\ ds' = Raise("CancelledError")
    /\ pc' = "mw_after"
    /\ UNCHANGED <<env, handlers, level, nextHandler, configCalls, req,
                   spanActive, spanTags, log, svc, outcome>>

\* the await is cancelled once the route has produced its response
MwCallNextCancelledAfter ==
    /\ pc = "mw_after"
    /\ ds.kind = "return"
    /\ ds' = Raise("CancelledError")
    /\ UNCHANGED <<env, handlers, level, nextHandler, configCalls, pc, req,
                   spanActive, spanTags, log, calls, svc, outcome>>

\* the await ends: the middleware logs and returns, or the exception leaves it
MwAfter ==
    /\ pc = "mw_after"
    /\ LET r == after_call_next(req, ds) IN
         /\ log' = log \o r.logs
         /\ outcome' = r.out
    /\ pc' = "done"
    /\ UNCHANGED <<env, handlers, level, nextHandler, configCalls, req,
                   spanActive, spanTags, calls, svc, ds>>

\* process_item_data called by other code than the route
DirectCall ==
    /\ pc \in {"idle", "done"}
    /\ \E id \in ItemIds, data \in Payloads :
         svc' = [NoCall EXCEPT !.caller = "direct", !.item_id = id, !.data = data]
    /\ req' = NoRequest
    /\ spanTags' = EmptyDict
    /\ log' = <<>>
    /\ calls' = 0
    /\ ds' = NoOutcome
    /\ outcome' = NoOutcome
    /\ pc' = "svc_entry"
    /\ UNCHANGED <<env, handlers, level, nextHandler, configCalls, spanActive>>

-----------------------------------------------------------------------------
(* logging_config.py: configure_logger *)

\* configure_logger called again, between requests
ConfigureLogger ==
    /\ pc \in {"idle", "done"}
    /\ configCalls < MaxConfigCalls
    /\ handlers' = configure_handlers(handlers, nextHandler)
    /\ level' = configure_levels(level)
    /\ nextHandler' = nextHandler + 1
    /\ configCalls' = configCalls + 1
    /\ pc' = "idle"
    /\ req' = NoRequest
    /\ spanTags' = EmptyDict
    /\ log' = <<>>
    /\ calls' = 0
    /\ svc' = NoCall
    /\ ds' = NoOutcome
    /\ outcome' = NoOutcome
    /\ UNCHANGED <<env, spanActive>>

\* the values of the two environment settings: unset, or set
EnvLevels == {Unset, "debug", "WARNING", "ERROR"}
EnvServices == {Unset, "orders-api", "ddtrace"}

\* the handlers another library may have put on the root logger before
\* logging_config is imported
RootHandlersBefore == {{}, {0}}

\* The state once logging_config has been imported: configure_logger has run
\* once, on the untouched logging module.
Init ==
    /\ env \in [LOG_LEVEL : EnvLevels, DD_SERVICE : EnvServices]
    /\ \E before \in RootHandlersBefore :
         handlers = configure_handlers(
                        [n \in LoggerNames |-> IF n = "root" THEN before ELSE {}], 1)
    /\ level = configure_levels(
                   [n \in LoggerNames |->
                      IF n = "root" THEN LevelNo["WARNING"] ELSE LevelNo["NOTSET"]])
    /\ nextHandler = 2
    /\ configCalls = 1
    /\ pc = "idle"
    /\ req = NoRequest
    /\ spanActive = FALSE
    /\ spanTags = EmptyDict
    /\ log = <<>>
    /\ calls = 0
    /\ svc = NoCall
    /\ ds = NoOutcome
    /\ outcome = NoOutcome

Next ==
    \/ ConfigureLogger
    \/ NewRequest
    \/ MwAttach
    \/ MwLogStart
    \/ MwCallNext
    \/ MwCallNextCancelledBefore
    \/ MwCallNextCancelledAfter
    \/ MwAfter
    \/ RouteNoItem
    \/ ReadItemCall
    \/ ReadItemReturn
    \/ DirectCall
    \/ SvcStart
    \/ SvcTry
    \/ SvcExcept

Spec == Init /\ [][Next]_vars

-----------------------------------------------------------------------------
(* Properties *)

\* an HTTP request is in progress or has ended (not a direct service call)
InRequest == req.route # None

\* the request ended without the environment interfering: call_next was not
\* cancelled and the service met no fault
Undisturbed == ds.exc # "CancelledError" /\ svc.exc = None

\* the positions in log of the calls made by src with message msg
Events(src, msg) == {i \in DOMAIN log : log[i].src = src /\ log[i].msg = msg}

\* the log calls made by process_item_data, in order
ServiceLog == SelectSeq(log, LAMBDA e : e.src = "service")

\* the decimal rendering of the item ids, written out
Decimal(n) ==
    CASE n = 0 -> <<"0">>
      [] n = 1 -> <<"1">>
      [] n = 2 -> <<"2">>
      [] n = 3 -> <<"3">>
      [] n = -1 -> <<"-", "1">>
      [] n = -2 -> <<"-", "2">>
      [] n = -3 -> <<"-", "3">>

\* what the route of the request answers, from the route and the outcome of
\* the service alone
RouteAnswer ==
    CASE req.route = "/" ->
           Response(200, [message |-> "Hello from FastAPI, traced by Datadog!"])
      [] req.route = "/error" ->
           Response(500, [detail |-> "An intentional server error occurred."])
      [] req.route = "/items" /\ svc.out.kind = "return" ->
           Response(200, svc.out.body)
      [] OTHER -> Response(500, [detail |-> ExcStr(svc.out.exc)])

\* C1: once configure_logger has run a second time, the application logger
\* has exactly one output handler, and every log call whose level is enabled
\* is written to standard output exactly once.
C1_OneHandlerAfterReinit ==
    configCalls >= 2 =>
      /\ Cardinality(handlers[LOGGER_NAME]) = 1
      /\ \A i \in DOMAIN log :
           isEnabledFor(LOGGER_NAME, log[i].level) => log[i].writes = 1

\* C2: for a request with a non-empty X-Correlation-ID v and an active span,
\* once the middleware has passed the header block the span carries the tag
\* correlation_id = v, and the request reaches the route handler.
C2_TagAttached ==
    (InRequest /\ pc # "mw_entry" /\ Truthy(req.cid) /\ spanActive) =>
      /\ "correlation_id" \in DOMAIN spanTags
      /\ spanTags["correlation_id"] = req.cid
      /\ outcome.exc # "AttributeError"
      /\ (pc = "done" => calls = 1)

\* C3: for a request with a non-empty X-Correlation-ID and no active span,
\* the middleware logs a warning, raises nothing, and the response is what
\* the route answers.
C3_WarningWithoutSpan ==
    (InRequest /\ pc = "done" /\ Truthy(req.cid) /\ ~spanActive /\ Undisturbed) =>
      /\ \E i \in DOMAIN log :
           log[i].src = "middleware" /\ log[i].level = "WARNING"
      /\ outcome.kind = "return"
      /\ outcome = RouteAnswer

\* C4: for every request the middleware calls call_next exactly once and
\* ends the way that call ended: it returns the response the call produced
\* and never fails before the call.
C4_ForwardsOnce ==
    (InRequest /\ pc = "done") => (calls = 1 /\ outcome = ds /\ ds.kind # "none")

\* C5: for every request, "Request started" is logged before call_next is
\* invoked, and when call_next returns a response "Request finished" is
\* logged last, with the same path, method and trace fields and the status
\* code of that response.
C5_StartedThenFinished ==
    InRequest =>
      /\ (calls >= 1 => Events("middleware", "Request started") # {})
      /\ (pc = "done" /\ ds.exc # "CancelledError") =>
           /\ Cardinality(Events("middleware", "Request started")) = 1
           /\ Events("middleware", "Request finished") = {Len(log)}
           /\ \A i \in Events("middleware", "Request started") :
                /\ i < Len(log)
                /\ \A j \in (i + 1) .. (Len(log) - 1) : log[j].src # "middleware"
                /\ log[Len(log)].extra.path = log[i].extra.path
                /\ log[Len(log)].extra.method = log[i].extra.method
                /\ log[Len(log)].extra.dd = log[i].extra.dd
                /\ log[Len(log)].extra.status_code = ds.status

\* C6: every request to GET /items/{item_id}, whatever its headers, is
\* answered 200 with {id, name: "Product {item_id}", status: "processed",
\* original_data: {name: "Product {item_id}"}}.
C6_ItemAnswer ==
    (InRequest /\ pc = "done" /\ req.route = "/items" /\ Undisturbed) =>
      /\ outcome.kind = "return"
      /\ outcome.status = 200
      /\ outcome.body =
           [id |-> req.item_id,
            name |-> <<"Product ">> \o Decimal(req.item_id),
            status |-> "processed",
            original_data |->
              PyDict([name |-> <<"Product ">> \o Decimal(req.item_id)])]

\* C7: process_item_data(id, payload) with a dict payload returns
\* {id, name, status: "processed", original_data: payload}, name being the
\* payload's "name" entry when it has one and "Item {id}" otherwise.
C7_ProcessResult ==
    /\ (svc.out.kind # "none" /\ svc.data.type = "dict" /\ svc.exc = None) =>
         svc.out.kind = "return"
    /\ svc.out.kind = "return" =>
         /\ svc.data.type = "dict"
         /\ DOMAIN svc.out.body = {"id", "name", "status", "original_data"}
         /\ svc.out.body.id = svc.item_id
         /\ svc.out.body.status = "processed"
         /\ svc.out.body.original_data = svc.data
         /\ svc.out.body.name =
              IF "name" \in DOMAIN svc.data.items
              THEN svc.data.items["name"]
              ELSE <<"Item ">> \o Decimal(svc.item_id)

C7_Witness ==
    /\ svc.caller = "direct"
    /\ svc.out.kind = "return"
    /\ "name" \notin DOMAIN svc.data.items
    /\ svc.item_id = 1
    /\ svc.out.body.name = <<"Item ", "1">>

\* C8: when process_item_data raises during GET /items/{item_id}, the route
\* logs an error, its response is a 500 whose detail is str(fault), and the
\* request does not end with a 2xx response.
C8_FaultBecomes500 ==
    (InRequest /\ req.route = "/items" /\ svc.out.kind = "raise"
       /\ pc \in {"mw_after", "done"}) =>
      /\ \E i \in DOMAIN log : log[i].src = "route" /\ log[i].level = "ERROR"
      /\ ds.kind = "return" =>
           (ds.status = 500 /\ ds.body = [detail |-> ExcStr(svc.out.exc)])
      /\ ~(outcome.kind = "return" /\ outcome.status \in 200 .. 299)

C8_Witness ==
    /\ pc = "done"
    /\ req.route = "/items"
    /\ svc.out.kind = "raise"
    /\ outcome.kind = "return"
    /\ outcome.status = 500
    /\ outcome.body = [detail |-> ""]

\* C9: process_item_data logs its info start event before the try block
\* runs; when the block raises it logs one error event and raises that same
\* fault; when the block succeeds it logs the debug event and returns, and
\* logs no error.
C9_ServiceLogOrder ==
    /\ pc \in {"svc_try", "svc_except"} =>
         (Len(ServiceLog) = 1 /\ ServiceLog[1].level = "INFO")
    /\ (svc.out.kind # "none" /\ svc.exc # None) =>
         /\ svc.out = Raise(svc.exc)
         /\ Len(ServiceLog) = 2
         /\ ServiceLog[1].level = "INFO"
         /\ ServiceLog[2].level = "ERROR"
    /\ (svc.out.kind # "none" /\ svc.exc = None) =>
         /\ svc.out.kind = "return"
         /\ Len(ServiceLog) = 2
         /\ ServiceLog[1].level = "INFO"
         /\ ServiceLog[2].level = "DEBUG"

C9_Witness ==
    /\ svc.exc = "MemoryError"
    /\ svc.out = Raise("MemoryError")
    /\ Len(ServiceLog) = 2
    /\ ServiceLog[2].level = "ERROR"

\* C10: when call_next raises, the middleware ends by raising that same
\* exception, and "Request finished" is not logged although "Request
\* started" was.
C10_DownstreamRaisePropagates ==
    (InRequest /\ pc = "done" /\ ds.kind = "raise") =>
      /\ outcome = ds
      /\ Events("middleware", "Request finished") = {}
      /\ Events("middleware", "Request started") # {}

C10_Witness ==
    /\ pc = "done"
    /\ ds = Raise("CancelledError")
    /\ outcome = Raise("CancelledError")
    /\ calls = 1

====
